---- MODULE Spec2Model ----
(***************************************************************************)
(* presquile: chapters of an Adobe Audition marker export written as ID3   *)
(* CHAP/CTOC frames into an "_enriched" copy of an MP3 file.               *)
(*                                                                         *)
(* Two specifications over the same definitions:                           *)
(*   Spec    the orchestration of src/src/lib.rs: apply in Sequential mode  *)
(*           and apply in Parallel mode, each run once on the same inputs  *)
(*           (each run has its own copy of the disk).                      *)
(*   SpecFn  one call of one of the functions of Applier (convert_time,    *)
(*           build_chapters, build_tag, load_cvs, copy_file,               *)
(*           verify_mp3_file) on an input drawn from a bounded set.        *)
(*                                                                         *)
(* Text (time-codes, file names, chapter ids) is a sequence of one-char    *)
(* strings, so that splitting, parsing and formatting are computed.        *)
(* A Result is a record [tag, val]: tag "Ok" (val the value), "Err" (val   *)
(* the error kind) or "Panic" (the call unwinds).                          *)
(***************************************************************************)
EXTENDS Integers, Sequences, FiniteSets, TLC

VARIABLES
    overflow_checks, \* build profile: TRUE = arithmetic overflow panics (debug)
    args,            \* SpecFn: the call, [fn |-> ..., ...its arguments...]
    ret,             \* SpecFn: "pending", or the Result of the call
    audition_cvs,    \* Spec: Applier.audition_cvs, the marker file as the csv reader yields it
    mp3_file,        \* Spec: Applier.mp3_file, [dir, name]
    media,           \* Spec: what MediaFileMetadata::new(&mp3_file) finds
    io,              \* Spec: [copy, write]: whether fs::copy / write_to_path succeed
    run,             \* Spec: per mode, the state of that call of apply
    worker           \* Spec: the three scoped threads of apply_parallel

vars == <<overflow_checks, args, ret, audition_cvs, mp3_file, media, io, run, worker>>

(***************************************************************************)
(* Bounds of the model.                                                    *)
(***************************************************************************)
MaxMarkers == 3   \* longest record list given to build_chapters / build_tag
MaxRows == 3      \* most data rows of a marker file given to load_cvs
MaxSegments == 4  \* most colon-separated segments of a time-code given to convert_time

(***************************************************************************)
(* Results.                                                                *)
(***************************************************************************)
Ok(v) == [tag |-> "Ok", val |-> v]
Err(e) == [tag |-> "Err", val |-> e]
Panic == [tag |-> "Panic", val |-> "panic"]

IsOk(r) == r.tag = "Ok"
IsErr(r) == r.tag = "Err"
IsPanic(r) == r.tag = "Panic"

(***************************************************************************)
(* Text helpers: str::contains, str::split_once, str::split, u32::from_str,*)
(* usize::to_string.                                                       *)
(***************************************************************************)
Contains(s, ch) == \E i \in 1..Len(s) : s[i] = ch

\* index of the first ch in s, 0 when there is none
IndexOf(s, ch) ==
    IF Contains(s, ch) THEN CHOOSE i \in 1..Len(s) : s[i] = ch /\ \A j \in 1..(i - 1) : s[j] # ch
    ELSE 0

\* index of the last ch in s, 0 when there is none
LastIndexOf(s, ch) ==
    IF Contains(s, ch) THEN CHOOSE i \in 1..Len(s) : s[i] = ch /\ \A j \in (i + 1)..Len(s) : s[j] # ch
    ELSE 0

\* str::split(ch): always at least one piece; pieces may be empty
RECURSIVE Split(_, _)
Split(s, ch) ==
    LET i == IndexOf(s, ch) IN
    IF i = 0 THEN <<s>>
    ELSE <<SubSeq(s, 1, i - 1)>> \o Split(SubSeq(s, i + 1, Len(s)), ch)

DigitChars == {"0", "1", "2", "3", "4", "5", "6", "7", "8", "9"}

DigitVal(c) ==
    CASE c = "0" -> 0 [] c = "1" -> 1 [] c = "2" -> 2 [] c = "3" -> 3 [] c = "4" -> 4
      [] c = "5" -> 5 [] c = "6" -> 6 [] c = "7" -> 7 [] c = "8" -> 8 [] c = "9" -> 9

DigitChar(d) ==
    CASE d = 0 -> "0" [] d = 1 -> "1" [] d = 2 -> "2" [] d = 3 -> "3" [] d = 4 -> "4"
      [] d = 5 -> "5" [] d = 6 -> "6" [] d = 7 -> "7" [] d = 8 -> "8" [] d = 9 -> "9"

RECURSIVE DigitsValue(_)
DigitsValue(s) ==
    IF s = <<>> THEN 0
    ELSE 10 * DigitsValue(SubSeq(s, 1, Len(s) - 1)) + DigitVal(s[Len(s)])

RECURSIVE StripZeros(_)
StripZeros(s) == IF Len(s) > 1 /\ s[1] = "0" THEN StripZeros(Tail(s)) ELSE s

\* str::parse::<u32>(): -1 stands for Err(ParseIntError). An optional leading
\* '+', then at least one decimal digit and nothing else, value within u32.
\* TLC's integers are 32-bit signed, so a text of 10 or more
\* significant digits (which may or may not fit u32) is outside the model: the
\* input sets below hold none, and every u32 of the model is below 2^31.
ParseU32(s) ==
    LET body == IF s # <<>> /\ s[1] = "+" THEN Tail(s) ELSE s IN
    IF body = <<>> \/ \E i \in 1..Len(body) : body[i] \notin DigitChars THEN -1
    ELSE DigitsValue(StripZeros(body))

\* usize::to_string(): decimal digits, no sign, no padding
RECURSIVE to_string(_)
to_string(n) ==
    IF n < 10 THEN <<DigitChar(n)>>
    ELSE to_string(n \div 10) \o <<DigitChar(n % 10)>>

(***************************************************************************)
(* u32 arithmetic of convert_time. Every multiplier is a multiple of 8, so *)
(* val * m >= 2^32 iff val * (m / 8) >= 2^29, and                          *)
(* (val * m) mod 2^32 = 8 * ((val * (m / 8)) mod 2^29): both are computed  *)
(* within TLC's 32-bit integers.                                           *)
(***************************************************************************)
MulOverflows(val, m) == val * (m \div 8) >= 2 ^ 29

WrappingMul(val, m) == 8 * ((val * (m \div 8)) % (2 ^ 29))

\* `duration as u32`: the f64 is truncated toward zero (and saturates at the
\* ends of u32, which no duration of the model reaches). An f64 number of
\* milliseconds is held as an integer count of tenths of a millisecond.
F64AsU32(tenths) == IF tenths < 0 THEN 0 ELSE tenths \div 10

(***************************************************************************)
(* Applier::convert_time (lib.rs 87-101).                                  *)
(***************************************************************************)
multipliers == <<1000, 60 * 1000, 60 * 60 * 1000>>

RECURSIVE SumSeq(_)
SumSeq(s) == IF s = <<>> THEN 0 ELSE Head(s) + SumSeq(Tail(s))

Reverse(s) == [i \in 1..Len(s) |-> s[Len(s) + 1 - i]]

convert_time(time) ==
    LET dot == IndexOf(time, ".") IN
    IF dot = 0 THEN Panic                                   \* split_once('.').unwrap()
    ELSE
      LET hh_mm_ss == Split(SubSeq(time, 1, dot - 1), ":")
          milliseconds == ParseU32(SubSeq(time, dot + 1, Len(time)))
          vals == Reverse([i \in 1..Len(hh_mm_ss) |-> ParseU32(hh_mm_ss[i])])
      IN
      IF milliseconds = -1 THEN Panic                       \* milliseconds.parse().unwrap()
      ELSE IF \E i \in 1..Len(vals) : vals[i] = -1 THEN Panic    \* v.parse::<u32>().unwrap()
      ELSE IF Len(vals) > Len(multipliers) THEN Panic       \* multipliers[idx] out of bounds
      ELSE IF \E i \in 1..Len(vals) : MulOverflows(vals[i], multipliers[i])
           THEN IF overflow_checks THEN Panic               \* attempt to multiply with overflow
                ELSE Ok(SumSeq([i \in 1..Len(vals) |-> WrappingMul(vals[i], multipliers[i])])
                        + milliseconds)
      ELSE Ok(SumSeq([i \in 1..Len(vals) |-> vals[i] * multipliers[i]]) + milliseconds)

(***************************************************************************)
(* Applier::build_chapters (lib.rs 123-143).                               *)
(*                                                                         *)
(* The returned iterator is Rev(Map(Rev(Enumerate(records)))). Iterator    *)
(* adaptors are lazy: the closure of map runs when an item is pulled, and  *)
(* Rev::next is the inner next_back, Map::next_back applies the closure to *)
(* the inner next_back. So the k-th next() of the returned iterator applies*)
(* the closure to the k-th item of Enumerate from the FRONT: the closure,  *)
(* and its captured end_time, see the records in input order.              *)
(* BuildFrom is that pull loop: i is the next record, end_time the value   *)
(* the closure holds; a panic of convert_time unwinds the whole collect.   *)
(***************************************************************************)
Chapter(element_id, start_time, end_time, title) ==
    [id |-> "CHAP", element_id |-> element_id, start_time |-> start_time,
     end_time |-> end_time, start_offset |-> 0, end_offset |-> 0, title |-> title]

RECURSIVE BuildFrom(_, _, _)
BuildFrom(records, i, end_time) ==
    IF i > Len(records) THEN Ok(<<>>)
    ELSE
      LET start_time == convert_time(records[i].start) IN
      IF ~IsOk(start_time) THEN Panic
      ELSE
        LET ch == Chapter(to_string(i - 1), start_time.val, end_time, records[i].name)
            rest == BuildFrom(records, i + 1, start_time.val)     \* end_time = start_time
        IN IF IsOk(rest) THEN Ok(<<ch>> \o rest.val) ELSE Panic

build_chapters(records, duration) == BuildFrom(records, 1, F64AsU32(duration))

(***************************************************************************)
(* Applier::build_tag (lib.rs 103-121). A Tag is the sequence of its       *)
(* frames; add_frame (id3::TagLike) first removes the frame that compares  *)
(* equal to the new one (same frame id and same element_id), then pushes.  *)
(***************************************************************************)
\* mutant of add_frame: frames conflict as soon as their frame ids are equal
add_frame_ByFrameId(tag, frame) ==
    LET same(f) == f.id = frame.id
        conflict == IF \E k \in 1..Len(tag) : same(tag[k])
                    THEN CHOOSE k \in 1..Len(tag) : same(tag[k]) /\ \A j \in 1..(k - 1) : ~same(tag[j])
                    ELSE 0
        kept == IF conflict = 0 THEN tag
                ELSE SubSeq(tag, 1, conflict - 1) \o SubSeq(tag, conflict + 1, Len(tag))
    IN kept \o <<frame>>

add_frame(tag, frame) ==
    LET same(f) == f.id = frame.id /\ f.element_id = frame.element_id
        conflict == IF \E k \in 1..Len(tag) : same(tag[k])
                    THEN CHOOSE k \in 1..Len(tag) : same(tag[k]) /\ \A j \in 1..(k - 1) : ~same(tag[j])
                    ELSE 0
        kept == IF conflict = 0 THEN tag
                ELSE SubSeq(tag, 1, conflict - 1) \o SubSeq(tag, conflict + 1, Len(tag))
    IN kept \o <<frame>>

TableOfContents(elements) ==
    [id |-> "CTOC", element_id |-> <<"t", "o", "c">>, top_level |-> TRUE, ordered |-> TRUE,
     elements |-> elements, title |-> "chapters-chapz"]

RECURSIVE AddChapters(_, _)
AddChapters(tag, chapters) ==
    IF chapters = <<>> THEN tag
    ELSE AddChapters(add_frame(tag, Head(chapters)), Tail(chapters))

build_tag(cvs, duration) ==
    LET chapters == build_chapters(cvs, duration) IN
    IF ~IsOk(chapters) THEN Panic
    ELSE
      LET chapter_ids == [k \in 1..Len(chapters.val) |-> chapters.val[k].element_id]
      IN Ok(add_frame(AddChapters(<<>>, chapters.val), TableOfContents(chapter_ids)))

(***************************************************************************)
(* Applier::load_cvs (lib.rs 145-165). file.openable: from_path succeeds;  *)
(* file.rows: the items of rdr.deserialize() in file order, each           *)
(* [ok |-> FALSE] (an Err) or [ok |-> TRUE, name, start] (a record).       *)
(***************************************************************************)
RECURSIVE SelectRows(_, _)
SelectRows(rows, wantOk) ==
    IF rows = <<>> THEN <<>>
    ELSE (IF Head(rows).ok = wantOk THEN <<Head(rows)>> ELSE <<>>) \o SelectRows(Tail(rows), wantOk)

\* mutant of load_cvs: only the first record's Start is checked
load_cvs_FirstRecordOnly(file) ==
    IF ~file.openable THEN Err("CsvError")
    ELSE
      LET error == SelectRows(file.rows, FALSE)
          oks == SelectRows(file.rows, TRUE)
          data == [k \in 1..Len(oks) |-> [name |-> oks[k].name, start |-> oks[k].start]]
      IN
      IF ~(error = <<>> /\ data # <<>>) THEN Err("ChaptersFileNotCompatible")
      ELSE IF ~(Contains(data[1].start, ":") /\ Contains(data[1].start, "."))
           THEN Err("ChaptersFileNotCompatible")
      ELSE Ok(data)

load_cvs(file) ==
    IF ~file.openable THEN Err("CsvError")                      \* from_path(..)?
    ELSE
      LET error == SelectRows(file.rows, FALSE)
          oks == SelectRows(file.rows, TRUE)
          data == [k \in 1..Len(oks) |-> [name |-> oks[k].name, start |-> oks[k].start]]
      IN
      IF ~(error = <<>> /\ data # <<>>) THEN Err("ChaptersFileNotCompatible")
      ELSE IF \E k \in 1..Len(data) : ~(Contains(data[k].start, ":") /\ Contains(data[k].start, "."))
           THEN Err("ChaptersFileNotCompatible")
      ELSE Ok(data)

(***************************************************************************)
(* Applier::verify_mp3_file (lib.rs 167-179). m.probe: MediaFileMetadata:: *)
(* new succeeds; m.container_format; m.duration: the Option<f64> of        *)
(* seconds, <<>> for None and <<d>> for Some, d being the tenths of a      *)
(* millisecond that the seconds times 1000f64 are.                         *)
(***************************************************************************)
\* mutant of verify_mp3_file: the container format is compared without case
verify_mp3_file_AnyCase(m) ==
    IF ~m.probe THEN Err("AudioFileNotCompatible")
    ELSE IF m.container_format \notin {"MP3", "mp3"} THEN Err("AudioFileNotCompatible")
    ELSE IF m.duration = <<>> THEN Panic
    ELSE Ok(m.duration[1])

verify_mp3_file(m) ==
    IF ~m.probe THEN Err("AudioFileNotCompatible")
    ELSE IF m.container_format # "MP3" THEN Err("AudioFileNotCompatible")
    ELSE IF m.duration = <<>> THEN Panic                        \* _duration.unwrap()
    ELSE Ok(m.duration[1])

(***************************************************************************)
(* Applier::copy_file (lib.rs 75-85). A path is [dir, name]; name is the   *)
(* last component as text, NoFileName when Path::file_name is None (the    *)
(* path ends in "..") or the stem is not UTF-8.                            *)
(***************************************************************************)
NoFileName == <<>>

\* mutant of with_file_name: the path is left as it is
with_file_name_Same(path, name) == path

\* Path::file_stem on a file name: the whole name when it has no '.', or
\* when its only '.' is the first character; else the part before the last '.'
file_stem(name) ==
    LET dot == LastIndexOf(name, ".") IN
    IF dot = 0 \/ dot = 1 THEN name ELSE SubSeq(name, 1, dot - 1)

with_file_name(path, name) == [path EXCEPT !.name = name]

EnrichedSuffix == <<"_", "e", "n", "r", "i", "c", "h", "e", "d", ".", "m", "p", "3">>

copy_file(path, copy_ok) ==
    IF path.name = NoFileName THEN Err("CopyFile")              \* ensure!(file_name.is_some())
    ELSE
      LET new_mp3_file == with_file_name(path, file_stem(path.name) \o EnrichedSuffix) IN
      IF ~copy_ok THEN Err("IoError")                           \* copy(..)?
      ELSE Ok(new_mp3_file)

(***************************************************************************)
(* Input sets.                                                             *)
(***************************************************************************)
\* pieces of a time-code: numbers, a number whose hour product passes u32
\* (1194 * 3600000 > 2^32 - 1), and a piece that is no number
SegmentTexts == {<<"0">>, <<"1">>, <<"3", "0">>, <<"1", "1", "9", "4">>, <<"x">>}

\* what follows the first '.': numbers, no number, and a text holding the ':'
MsTexts == {<<"0", "0", "0">>, <<"5", "0", "0">>, <<"x">>, <<"5", ":", "3">>}

RECURSIVE Join(_)
Join(segs) ==
    IF Len(segs) = 1 THEN segs[1]
    ELSE segs[1] \o <<":">> \o Join(Tail(segs))

SegmentLists == UNION {[1..n -> SegmentTexts] : n \in 1..MaxSegments}

\* every text  seg(:seg)*.ms  of at most MaxSegments segments
TimeCodes == {Join(segs) \o <<".">> \o ms : segs \in SegmentLists, ms \in MsTexts}

\* the Start fields of the marker files of the model
T_0_00_000 == <<"0", ":", "0", "0", ".", "0", "0", "0">>
T_1_30_500 == <<"1", ":", "3", "0", ".", "5", "0", "0">>
T_1_00_00_250 == <<"1", ":", "0", "0", ":", "0", "0", ".", "2", "5", "0">>
T_x_00_000 == <<"x", ":", "0", "0", ".", "0", "0", "0">>
T_no_colon == <<"1", "2", ".", "5", "0", "0">>
T_no_dot == <<"0", ":", "0", "0">>

ValidStarts == {T_0_00_000, T_1_30_500, T_1_00_00_250}
SeparatedStarts == ValidStarts \cup {T_x_00_000}        \* pass the check of load_cvs
RowStarts == {T_0_00_000, T_1_30_500, T_no_colon, T_no_dot}

Names == {"Intro", "Verse"}

Records == [name : Names, start : SeparatedStarts]
RecordLists == UNION {[1..n -> Records] : n \in 0..MaxMarkers}

\* f64 milliseconds, in tenths: 0, 12345, 200000, and 90500.7
Durations == {0, 123450, 2000000, 905007}

Rows == {[ok |-> FALSE, name |-> "", start |-> <<>>]}
        \cup {[ok |-> TRUE, name |-> n, start |-> t] : n \in Names, t \in RowStarts}
RowLists == UNION {[1..n -> Rows] : n \in 0..MaxRows}
CvsFiles == {[openable |-> TRUE, rows |-> r] : r \in RowLists}
            \cup {[openable |-> FALSE, rows |-> <<>>]}

FileNames == {
    <<"a", ".", "m", "p", "3">>,
    <<"a", ".", "o", "g", "g">>,
    <<"a", ".", "b", ".", "m", "p", "3">>,
    <<"a">>,
    <<".", "m", "p", "3">>,
    <<"a", "_", "e", "n", "r", "i", "c", "h", "e", "d", ".", "m", "p", "3">>,
    NoFileName }
Paths == [dir : {"music", "."}, name : FileNames]

Medias == {[probe |-> FALSE, container_format |-> "", duration |-> <<>>]}
          \cup [probe : {TRUE}, container_format : {"MP3", "Ogg", "mp3"},
                duration : {<<>>} \cup {<<d>> : d \in Durations}]

(***************************************************************************)
(* SpecFn: one call of one function of Applier.                            *)
(***************************************************************************)
Pending == [tag |-> "Pending", val |-> "pending"]
NoCall == [fn |-> "none"]

IdleRun == [m \in {"Sequential", "Parallel"} |-> [pc |-> "idle"]]
IdleWorker == [w \in {"load_cvs", "verify_mp3_file", "copy_file"} |-> [st |-> "idle"]]

Calls ==
    {[fn |-> "convert_time", time |-> t] : t \in TimeCodes}
    \cup {[fn |-> f, records |-> r, duration |-> d] :
            f \in {"build_chapters", "build_tag"}, r \in RecordLists, d \in Durations}
    \cup {[fn |-> "load_cvs", file |-> c] : c \in CvsFiles}
    \cup {[fn |-> "copy_file", path |-> p, copy_ok |-> b] : p \in Paths, b \in BOOLEAN}
    \cup {[fn |-> "verify_mp3_file", media |-> m] : m \in Medias}

\* the build profile is drawn where a product can pass u32: the time-codes
\* given to convert_time (no Start of Records does)
InitFn ==
    /\ args \in Calls
    /\ overflow_checks \in (IF args.fn = "convert_time" THEN BOOLEAN ELSE {FALSE})
    /\ ret = Pending
    /\ audition_cvs = [openable |-> FALSE, rows |-> <<>>]
    /\ mp3_file = [dir |-> ".", name |-> NoFileName]
    /\ media = [probe |-> FALSE, container_format |-> "", duration |-> <<>>]
    /\ io = [copy |-> FALSE, write |-> FALSE]
    /\ run = IdleRun
    /\ worker = IdleWorker

Calling(fn) == args.fn = fn /\ ret.tag = "Pending"

FnFrame == <<overflow_checks, args, audition_cvs, mp3_file, media, io, run, worker>>

CallConvertTime ==
    /\ Calling("convert_time")
    /\ ret' = convert_time(args.time)
    /\ UNCHANGED FnFrame

CallBuildChapters ==
    /\ Calling("build_chapters")
    /\ ret' = build_chapters(args.records, args.duration)
    /\ UNCHANGED FnFrame

CallBuildTag ==
    /\ Calling("build_tag")
    /\ ret' = build_tag(args.records, args.duration)
    /\ UNCHANGED FnFrame

CallLoadCvs ==
    /\ Calling("load_cvs")
    /\ ret' = load_cvs(args.file)
    /\ UNCHANGED FnFrame

CallCopyFile ==
    /\ Calling("copy_file")
    /\ ret' = copy_file(args.path, args.copy_ok)
    /\ UNCHANGED FnFrame

CallVerifyMp3File ==
    /\ Calling("verify_mp3_file")
    /\ ret' = verify_mp3_file(args.media)
    /\ UNCHANGED FnFrame

NextFn ==
    \/ CallConvertTime
    \/ CallBuildChapters
    \/ CallBuildTag
    \/ CallLoadCvs
    \/ CallCopyFile
    \/ CallVerifyMp3File

SpecFn == InitFn /\ [][NextFn]_vars

(***************************************************************************)
(* Spec: apply (lib.rs 32-37) called in Sequential mode and then in        *)
(* Parallel mode on the same Applier, each call on its own copy of the     *)
(* disk. run[m] is the call in mode m:                                     *)
(*   pc            where the call is                                       *)
(*   cvs, duration, tag, new_mp3_file   its locals, Pending until bound    *)
(*   closure       apply_parallel: what the closure given to thread::scope *)
(*                 evaluated to                                            *)
(*   result        what apply returned: Ok(path), Err(kind) or Panic       *)
(*   steps         the operations the call has carried out, in order       *)
(*   access        the file accesses of the steps: [by, file, kind], kind  *)
(*                 "read" or "write"                                       *)
(*   written       the paths some step has written to                      *)
(*   tagged        the successful write_to_path calls, [path, tag] each    *)
(***************************************************************************)
Modes == {"Sequential", "Parallel"}
Workers == {"load_cvs", "verify_mp3_file", "copy_file"}

NewRun(pc0) ==
    [pc |-> pc0, cvs |-> Pending, duration |-> Pending, tag |-> Pending,
     new_mp3_file |-> Pending, closure |-> Pending, result |-> Pending,
     steps |-> <<>>, access |-> {}, written |-> {}, tagged |-> <<>>]

\* marker files of the orchestration: unreadable, no data row, two
\* markers, three markers, a row without '.', a row
\* that failed to deserialize, a row whose time-code is no number
M(name, start) == [ok |-> TRUE, name |-> name, start |-> start]
BadRow == [ok |-> FALSE, name |-> "", start |-> <<>>]

ApplyCvsFiles == {
    [openable |-> FALSE, rows |-> <<>>],
    [openable |-> TRUE, rows |-> <<>>],
    [openable |-> TRUE, rows |-> <<M("Intro", T_0_00_000), M("Verse", T_1_30_500)>>],
    [openable |-> TRUE, rows |-> <<M("Intro", T_0_00_000), M("Verse", T_1_30_500),
                                   M("Intro", T_1_00_00_250)>>],
    [openable |-> TRUE, rows |-> <<M("Intro", T_0_00_000), M("Verse", T_no_dot)>>],
    [openable |-> TRUE, rows |-> <<BadRow, M("Verse", T_1_30_500)>>],
    [openable |-> TRUE, rows |-> <<M("Intro", T_x_00_000)>>] }

ApplyMedias == {
    [probe |-> FALSE, container_format |-> "", duration |-> <<>>],
    [probe |-> TRUE, container_format |-> "Ogg", duration |-> <<2000000>>],
    [probe |-> TRUE, container_format |-> "mp3", duration |-> <<2000000>>],
    [probe |-> TRUE, container_format |-> "MP3", duration |-> <<>>],
    [probe |-> TRUE, container_format |-> "MP3", duration |-> <<2000000>>] }

\* no Start of ApplyCvsFiles makes a product pass u32: the build profile has
\* no effect on these calls and is held at release
Init ==
    /\ overflow_checks = FALSE
    /\ args = NoCall
    /\ ret = Pending
    /\ audition_cvs \in ApplyCvsFiles
    /\ mp3_file \in [dir : {"music"}, name : FileNames]
    /\ media \in ApplyMedias
    /\ io \in [copy : BOOLEAN, write : BOOLEAN]
    /\ run = [m \in Modes |-> NewRun(IF m = "Sequential" THEN "load_cvs" ELSE "spawn")]
    /\ worker = [w \in Workers |-> [st |-> "idle", out |-> Pending, joined |-> FALSE]]

Inputs == <<overflow_checks, args, ret, audition_cvs, mp3_file, media, io>>

\* the call in mode m goes on with its fields changed to `now`
Goes(m, now) == run' = [run EXCEPT ![m] = now]

\* the call in mode m returns `result`
Return(r, result) == [r EXCEPT !.pc = "done", !.result = result]

\* Applier.audition_cvs, the path of the marker file: a file that is neither
\* the audio file nor its copy
AuditionCvsPath == [dir |-> "music", name |-> <<"m", ".", "c", "s", "v">>]

Access(by, file, kind) == [by |-> by, file |-> file, kind |-> kind]

\* the files a step opens: load_cvs the marker file (from_path), verify_mp3_file
\* the audio file (MediaFileMetadata::new), copy_file the audio file and, when
\* fs::copy succeeds, the copy it writes; write_to_path the copy; build_tag none
Accesses(r, step) ==
    CASE step = "load_cvs" -> {Access(step, AuditionCvsPath, "read")}
      [] step = "verify_mp3_file" -> {Access(step, mp3_file, "read")}
      [] step = "copy_file" ->
           LET new_mp3_file == copy_file(mp3_file, io.copy) IN
           IF mp3_file.name = NoFileName THEN {}
           ELSE {Access(step, mp3_file, "read")}
                \cup (IF IsOk(new_mp3_file) THEN {Access(step, new_mp3_file.val, "write")} ELSE {})
      [] step = "write_to_path" -> {Access(step, r.new_mp3_file.val, "write")}
      [] OTHER -> {}

Did(r, step) == [r EXCEPT !.steps = Append(@, step), !.access = @ \cup Accesses(r, step)]

\* mutant of WriteToPath: the tag is written to self.mp3_file
WriteToPath_Source(r) ==
    LET w == [Did(r, "write_to_path") EXCEPT !.written = @ \cup {mp3_file}] IN
    IF io.write
    THEN Return([w EXCEPT !.tagged = Append(@, [path |-> mp3_file, tag |-> r.tag.val])],
                Ok(r.new_mp3_file.val))
    ELSE Return(w, Err("WriteError"))

\* Tag::write_to_path(path, Version::Id3v24) followed by Ok(new_mp3_file)
\* (lib.rs 51-52 and 71-72)
WriteToPath(r) ==
    LET w == [Did(r, "write_to_path") EXCEPT !.written = @ \cup {r.new_mp3_file.val}] IN
    IF io.write
    THEN Return([w EXCEPT !.tagged = Append(@, [path |-> r.new_mp3_file.val, tag |-> r.tag.val])],
                Ok(r.new_mp3_file.val))
    ELSE Return(w, Err("WriteError"))

(***************************************************************************)
(* Applier::apply_seq (lib.rs 46-53), one action per line.                 *)
(***************************************************************************)
SeqRun == run["Sequential"]

SeqLoadCvs ==
    /\ SeqRun.pc = "load_cvs"
    /\ LET cvs == load_cvs(audition_cvs)
           r == Did(SeqRun, "load_cvs")
       IN Goes("Sequential",
               IF IsOk(cvs) THEN [r EXCEPT !.cvs = cvs, !.pc = "verify_mp3_file"]
               ELSE Return(r, cvs))
    /\ UNCHANGED <<Inputs, worker>>

\* mutant of SeqVerifyMp3File: the copy is made before the probe's failure is returned
SeqVerifyMp3File_CopyAnyway ==
    /\ SeqRun.pc = "verify_mp3_file"
    /\ LET duration == verify_mp3_file(media)
           new_mp3_file == copy_file(mp3_file, io.copy)
           r == Did(SeqRun, "verify_mp3_file")
           c == Did(r, "copy_file")
       IN Goes("Sequential",
               IF IsOk(duration) THEN [r EXCEPT !.duration = duration, !.pc = "build_tag"]
               ELSE IF IsOk(new_mp3_file)
                    THEN Return([c EXCEPT !.written = @ \cup {new_mp3_file.val}], duration)
               ELSE Return(c, duration))
    /\ UNCHANGED <<Inputs, worker>>

SeqVerifyMp3File ==
    /\ SeqRun.pc = "verify_mp3_file"
    /\ LET duration == verify_mp3_file(media)
           r == Did(SeqRun, "verify_mp3_file")
       IN Goes("Sequential",
               IF IsOk(duration) THEN [r EXCEPT !.duration = duration, !.pc = "build_tag"]
               ELSE Return(r, duration))
    /\ UNCHANGED <<Inputs, worker>>

SeqBuildTag ==
    /\ SeqRun.pc = "build_tag"
    /\ LET tag == build_tag(SeqRun.cvs.val, SeqRun.duration.val)
           r == Did(SeqRun, "build_tag")
       IN Goes("Sequential",
               IF IsOk(tag) THEN [r EXCEPT !.tag = tag, !.pc = "copy_file"]
               ELSE Return(r, Panic))
    /\ UNCHANGED <<Inputs, worker>>

SeqCopyFile ==
    /\ SeqRun.pc = "copy_file"
    /\ LET new_mp3_file == copy_file(mp3_file, io.copy)
           r == Did(SeqRun, "copy_file")
       IN Goes("Sequential",
               IF IsOk(new_mp3_file)
               THEN [r EXCEPT !.new_mp3_file = new_mp3_file, !.pc = "write_to_path",
                              !.written = @ \cup {new_mp3_file.val}]
               ELSE Return(r, new_mp3_file))
    /\ UNCHANGED <<Inputs, worker>>

SeqWriteToPath ==
    /\ SeqRun.pc = "write_to_path"
    /\ Goes("Sequential", WriteToPath(SeqRun))
    /\ UNCHANGED <<Inputs, worker>>

(***************************************************************************)
(* Applier::apply_parallel (lib.rs 55-73). The call starts when the        *)
(* Sequential one has returned. worker[w] is the scoped thread running w:  *)
(* st idle / running / finished, out what its closure evaluated to (Panic  *)
(* when the thread panicked), joined whether its handle was joined.        *)
(***************************************************************************)
ParRun == run["Parallel"]

\* lib.rs 59-61: the three s.spawn calls
ParSpawn ==
    /\ SeqRun.pc = "done"
    /\ ParRun.pc = "spawn"
    /\ worker' = [w \in Workers |-> [worker[w] EXCEPT !.st = "running"]]
    /\ Goes("Parallel", [ParRun EXCEPT !.pc = "join_cvs"])
    /\ UNCHANGED Inputs

Finishes(w, out) == worker' = [worker EXCEPT ![w] = [@ EXCEPT !.st = "finished", !.out = out]]

\* the thread of lib.rs 59
LoadCvsWorker ==
    /\ worker["load_cvs"].st = "running"
    /\ Finishes("load_cvs", load_cvs(audition_cvs))
    /\ Goes("Parallel", Did(ParRun, "load_cvs"))
    /\ UNCHANGED Inputs

\* the thread of lib.rs 60
VerifyMp3FileWorker ==
    /\ worker["verify_mp3_file"].st = "running"
    /\ Finishes("verify_mp3_file", verify_mp3_file(media))
    /\ Goes("Parallel", Did(ParRun, "verify_mp3_file"))
    /\ UNCHANGED Inputs

\* the thread of lib.rs 61
CopyFileWorker ==
    /\ worker["copy_file"].st = "running"
    /\ LET new_mp3_file == copy_file(mp3_file, io.copy)
           r == Did(ParRun, "copy_file")
       IN /\ Finishes("copy_file", new_mp3_file)
          /\ Goes("Parallel",
                  IF IsOk(new_mp3_file) THEN [r EXCEPT !.written = @ \cup {new_mp3_file.val}]
                  ELSE r)
    /\ UNCHANGED Inputs

\* handle.join().map_err(|_| ThreadInterrupted)?? : blocks until the thread
\* has finished; a panic of the thread becomes Err(ThreadInterrupted)
Joined(w) == IF IsPanic(worker[w].out) THEN Err("ThreadInterrupted") ELSE worker[w].out

MarkJoined(w) == worker' = [worker EXCEPT ![w] = [@ EXCEPT !.joined = TRUE]]

\* the closure returns (by `?` or at its end): what is left is the end of the scope
Closes(r, value) == [r EXCEPT !.pc = "scope_end", !.closure = value]

\* mutant of ParJoinCvs: the copy is joined first, then the marker load
ParJoinCvs_CopyFirst ==
    /\ ParRun.pc = "join_cvs"
    /\ worker["load_cvs"].st = "finished"
    /\ worker["copy_file"].st = "finished"
    /\ worker' = [worker EXCEPT !["load_cvs"] = [@ EXCEPT !.joined = IsOk(Joined("copy_file"))],
                                !["copy_file"] = [@ EXCEPT !.joined = TRUE]]
    /\ LET cvs == Joined("load_cvs") IN
       Goes("Parallel",
            IF ~IsOk(Joined("copy_file")) THEN Closes(ParRun, Joined("copy_file"))
            ELSE IF IsOk(cvs) THEN [ParRun EXCEPT !.cvs = cvs, !.pc = "join_duration"]
            ELSE Closes(ParRun, cvs))
    /\ UNCHANGED Inputs

\* mutant of ParJoinCvs: the first worker seen to have failed decides, the
\* marker load or a sibling that failed while the marker load was running
ParJoinCvs_FirstFinished ==
    /\ ParRun.pc = "join_cvs"
    /\ \E w \in Workers :
         /\ worker[w].st = "finished"
         /\ w = "load_cvs" \/ (worker["load_cvs"].st # "finished" /\ ~IsOk(worker[w].out))
         /\ MarkJoined(w)
         /\ Goes("Parallel",
                 IF w = "load_cvs" /\ IsOk(Joined(w))
                 THEN [ParRun EXCEPT !.cvs = Joined(w), !.pc = "join_duration"]
                 ELSE Closes(ParRun, Joined(w)))
    /\ UNCHANGED Inputs

\* lib.rs 63
ParJoinCvs ==
    /\ ParRun.pc = "join_cvs"
    /\ worker["load_cvs"].st = "finished"
    /\ MarkJoined("load_cvs")
    /\ LET cvs == Joined("load_cvs") IN
       Goes("Parallel",
            IF IsOk(cvs) THEN [ParRun EXCEPT !.cvs = cvs, !.pc = "join_duration"]
            ELSE Closes(ParRun, cvs))
    /\ UNCHANGED Inputs

\* lib.rs 64
ParJoinDuration ==
    /\ ParRun.pc = "join_duration"
    /\ worker["verify_mp3_file"].st = "finished"
    /\ MarkJoined("verify_mp3_file")
    /\ LET duration == Joined("verify_mp3_file") IN
       Goes("Parallel",
            IF IsOk(duration) THEN [ParRun EXCEPT !.duration = duration, !.pc = "build_tag"]
            ELSE Closes(ParRun, duration))
    /\ UNCHANGED Inputs

\* lib.rs 66: a panic of build_tag unwinds out of the closure
ParBuildTag ==
    /\ ParRun.pc = "build_tag"
    /\ LET tag == build_tag(ParRun.cvs.val, ParRun.duration.val)
           r == Did(ParRun, "build_tag")
       IN Goes("Parallel",
               IF IsOk(tag) THEN [r EXCEPT !.tag = tag, !.pc = "join_new_mp3_file"]
               ELSE Closes(r, Panic))
    /\ UNCHANGED <<Inputs, worker>>

\* lib.rs 67-68
ParJoinNewMp3File ==
    /\ ParRun.pc = "join_new_mp3_file"
    /\ worker["copy_file"].st = "finished"
    /\ MarkJoined("copy_file")
    /\ LET new_mp3_file == Joined("copy_file") IN
       Goes("Parallel",
            IF IsOk(new_mp3_file)
            THEN Closes([ParRun EXCEPT !.new_mp3_file = new_mp3_file], Ok("tag, new_mp3_file"))
            ELSE Closes(ParRun, new_mp3_file))
    /\ UNCHANGED Inputs

\* mutant of ParScopeEnd: the threads are not scoped, nothing waits for them
ParScopeEnd_NoWait ==
    /\ ParRun.pc = "scope_end"
    /\ Goes("Parallel",
            IF IsPanic(ParRun.closure) THEN Return(ParRun, Panic)
            ELSE IF IsErr(ParRun.closure) THEN Return(ParRun, ParRun.closure)
            ELSE [ParRun EXCEPT !.pc = "write_to_path"])
    /\ UNCHANGED <<Inputs, worker>>

\* mutant of ParScopeEnd: the copy is removed when the closure gave an error
ParScopeEnd_UndoCopy ==
    /\ ParRun.pc = "scope_end"
    /\ \A w \in Workers : worker[w].st = "finished"
    /\ Goes("Parallel",
            IF IsPanic(ParRun.closure) THEN Return(ParRun, Panic)
            ELSE IF \E w \in Workers : IsPanic(worker[w].out) /\ ~worker[w].joined
                 THEN Return(ParRun, Panic)
            ELSE IF IsErr(ParRun.closure)
                 THEN Return([ParRun EXCEPT !.written = {}], ParRun.closure)
            ELSE [ParRun EXCEPT !.pc = "write_to_path"])
    /\ UNCHANGED <<Inputs, worker>>

\* lib.rs 58 and 69: thread::scope waits until every spawned thread has
\* finished; then it resumes the closure's panic, or panics ("a scoped
\* thread panicked") when a thread panicked and its handle was never joined,
\* or gives the closure's value, on which `?` returns an Err.
ParScopeEnd ==
    /\ ParRun.pc = "scope_end"
    /\ \A w \in Workers : worker[w].st = "finished"
    /\ Goes("Parallel",
            IF IsPanic(ParRun.closure) THEN Return(ParRun, Panic)
            ELSE IF \E w \in Workers : IsPanic(worker[w].out) /\ ~worker[w].joined
                 THEN Return(ParRun, Panic)
            ELSE IF IsErr(ParRun.closure) THEN Return(ParRun, ParRun.closure)
            ELSE [ParRun EXCEPT !.pc = "write_to_path"])
    /\ UNCHANGED <<Inputs, worker>>

\* lib.rs 71-72
ParWriteToPath ==
    /\ ParRun.pc = "write_to_path"
    /\ Goes("Parallel", WriteToPath(ParRun))
    /\ UNCHANGED <<Inputs, worker>>

Next ==
    \/ SeqLoadCvs
    \/ SeqVerifyMp3File
    \/ SeqBuildTag
    \/ SeqCopyFile
    \/ SeqWriteToPath
    \/ ParSpawn
    \/ LoadCvsWorker
    \/ VerifyMp3FileWorker
    \/ CopyFileWorker
    \/ ParJoinCvs
    \/ ParJoinDuration
    \/ ParBuildTag
    \/ ParJoinNewMp3File
    \/ ParScopeEnd
    \/ ParWriteToPath

Spec == Init /\ [][Next]_vars

(***************************************************************************)
(* Properties of the orchestration (Spec).                                 *)
(***************************************************************************)
\* what each of the three preparatory units evaluates to on the inputs
Outcome(w) ==
    CASE w = "load_cvs" -> load_cvs(audition_cvs)
      [] w = "verify_mp3_file" -> verify_mp3_file(media)
      [] w = "copy_file" -> copy_file(mp3_file, io.copy)

Positions(steps, step) == {i \in 1..Len(steps) : steps[i] = step}

Returned(m) == run[m].pc = "done"

\* the call in mode m has carried out unit w, which returned a typed failure
Failed(m, w) == Positions(run[m].steps, w) # {} /\ IsErr(Outcome(w))

\* in mode m write_to_path happens at most once, nothing follows it, and it
\* happens only after load_cvs, verify_mp3_file and copy_file have all been
\* carried out and have all succeeded
WriteOrdering(m) ==
    LET r == run[m]
        writes == Positions(r.steps, "write_to_path")
    IN /\ Cardinality(writes) <= 1
       /\ Len(r.tagged) <= Cardinality(writes)
       /\ \A i \in writes :
            /\ i = Len(r.steps)
            /\ r.pc = "done"
            /\ \A w \in Workers : IsOk(Outcome(w)) /\ \E j \in 1..(i - 1) : r.steps[j] = w

\* C1 (as claimed): in both modes the tag write happens at most once, is the
\* last step and comes only after the marker load, the audio probe and the
\* file copy have all succeeded; and when one of the three has failed, apply
\* returns an error and the tag write never happens.
C1_WriteLastAfterAllThree ==
    \A m \in Modes :
      /\ WriteOrdering(m)
      /\ (Returned(m) /\ \E w \in Workers : Failed(m, w))
           => /\ IsErr(run[m].result)
              /\ Positions(run[m].steps, "write_to_path") = {}
              /\ run[m].tagged = <<>>

SameResult(a, b) == a.tag = b.tag /\ a.val = b.val

\* C2: when each of load_cvs, verify_mp3_file and copy_file ends in a
\* success or a typed failure, apply in Sequential mode and apply in
\* Parallel mode return the same: the same path with the same tag written
\* when Ok, the same error kind when Err.
C2_ModesAgree ==
    (Returned("Sequential") /\ Returned("Parallel") /\ \A w \in Workers : ~IsPanic(Outcome(w)))
      => /\ SameResult(run["Sequential"].result, run["Parallel"].result)
         /\ run["Sequential"].tagged = run["Parallel"].tagged

\* C2 witness: both calls returned, the marker file and the copy both failed
C2_Witness ==
    /\ Returned("Sequential") /\ Returned("Parallel")
    /\ IsErr(Outcome("load_cvs")) /\ IsOk(Outcome("verify_mp3_file")) /\ IsErr(Outcome("copy_file"))
    /\ IsErr(run["Parallel"].result)

\* C3 (as claimed): in Parallel mode, when a worker has panicked, apply
\* returns an Err, whatever the other two workers did, and that Err is
\* ThreadInterrupted when no worker returned a typed failure.
C3_PanicBecomesTypedError ==
    (Returned("Parallel") /\ \E w \in Workers : IsPanic(worker[w].out))
      => /\ IsErr(run["Parallel"].result)
         /\ (\A w \in Workers : ~IsErr(worker[w].out))
              => run["Parallel"].result.val = "ThreadInterrupted"

\* the error the precedence marker-parse > audio-probe > copy >
\* worker-interrupted picks among the failed units
PrecedenceError ==
    IF IsErr(worker["load_cvs"].out) THEN worker["load_cvs"].out.val
    ELSE IF IsErr(worker["verify_mp3_file"].out) THEN worker["verify_mp3_file"].out.val
    ELSE IF IsErr(worker["copy_file"].out) THEN worker["copy_file"].out.val
    ELSE "ThreadInterrupted"

\* C4 (as claimed): in Parallel mode, when more than one unit has failed,
\* apply returns the error of the precedence marker-parse > audio-probe >
\* copy > worker-interrupted.
C4_ErrorPrecedence ==
    (Returned("Parallel") /\ Cardinality({w \in Workers : ~IsOk(worker[w].out)}) > 1)
      => /\ IsErr(run["Parallel"].result)
         /\ run["Parallel"].result.val = PrecedenceError

\* C5: in Parallel mode, once the scope is left (apply is about to write,
\* or has returned) every worker has finished, each with the outcome of its
\* own function: none was cancelled, none is still running.
C5_JoinAllBeforeReturn ==
    run["Parallel"].pc \in {"write_to_path", "done"}
      => \A w \in Workers : worker[w].st = "finished" /\ worker[w].out = Outcome(w)

\* C5 witness: apply returned the marker file's error, found at the first
\* join, and the probe and the copy have nevertheless run to success
C5_Witness ==
    /\ Returned("Parallel")
    /\ IsErr(worker["load_cvs"].out)
    /\ ~worker["verify_mp3_file"].joined /\ IsOk(worker["verify_mp3_file"].out)
    /\ ~worker["copy_file"].joined /\ IsOk(worker["copy_file"].out)

\* the path copy_file returned to the call in mode m
CopiedPath(m) == IF m = "Parallel" THEN worker["copy_file"].out ELSE run[m].new_mp3_file

\* C6: in both modes every write of the call (the copy, and the tag write,
\* successful or not) goes to the path copy_file returned, which is not the
\* source audio path; the source is never written.
C6_WritesOnlyTheCopy ==
    \A m \in Modes :
      LET r == run[m] IN
      /\ mp3_file \notin r.written
      /\ r.written # {} => IsOk(CopiedPath(m)) /\ r.written = {CopiedPath(m).val}
      /\ IsOk(CopiedPath(m)) => CopiedPath(m).val # mp3_file
      /\ \A i \in 1..Len(r.tagged) :
           r.tagged[i].path = CopiedPath(m).val /\ r.tagged[i].path # mp3_file

\* C6 witness: both calls have written their tag, for a source without extension
C6_Witness ==
    /\ mp3_file.name = <<"a">>
    /\ \A m \in Modes : Returned(m) /\ Len(run[m].tagged) = 1

\* C11: verify_mp3_file returns AudioFileNotCompatible whenever the probe
\* fails or the probed container format is not exactly "MP3", and returns a
\* duration only for a probed format of exactly "MP3"; and apply, in either
\* mode, on a marker file that load_cvs accepts, then returns
\* AudioFileNotCompatible.
C11_AudioFileNotCompatible ==
    LET rejected == ~media.probe \/ media.container_format # "MP3" IN
    /\ rejected => SameResult(verify_mp3_file(media), Err("AudioFileNotCompatible"))
    /\ \A m \in Modes :
         /\ IsOk(run[m].duration) => media.probe /\ media.container_format = "MP3"
         /\ (Returned(m) /\ rejected /\ IsOk(Outcome("load_cvs")))
              => SameResult(run[m].result, Err("AudioFileNotCompatible"))
    /\ (worker["verify_mp3_file"].st = "finished" /\ rejected)
         => SameResult(worker["verify_mp3_file"].out, Err("AudioFileNotCompatible"))
    /\ IsOk(worker["verify_mp3_file"].out) => media.probe /\ media.container_format = "MP3"

\* C11 witness: both calls have returned AudioFileNotCompatible for a file
\* probed as "mp3", with a marker file that was accepted and a copy that was made
C11_Witness ==
    /\ media.probe /\ media.container_format = "mp3"
    /\ IsOk(Outcome("load_cvs")) /\ IsOk(Outcome("copy_file"))
    /\ \A m \in Modes :
         Returned(m) /\ SameResult(run[m].result, Err("AudioFileNotCompatible"))

SeqOrder == <<"load_cvs", "verify_mp3_file", "build_tag", "copy_file", "write_to_path">>

\* C15: in Sequential mode the steps carried out are, at every moment, the
\* first few of marker load, audio probe, tag build, file copy, tag write,
\* in that order, and a step is carried out only when every step before it
\* succeeded; so when the marker load or the audio probe fails, the file
\* copy is never attempted and nothing is written.
C15_SequentialStrictOrder ==
    LET r == run["Sequential"]
        n == Len(r.steps)
    IN /\ n <= Len(SeqOrder)
       /\ r.steps = SubSeq(SeqOrder, 1, n)
       /\ n >= 2 => IsOk(Outcome("load_cvs"))
       /\ n >= 3 => IsOk(Outcome("verify_mp3_file"))
       /\ n >= 4 => IsOk(r.tag)
       /\ n >= 5 => IsOk(Outcome("copy_file"))
       /\ (~IsOk(Outcome("load_cvs")) \/ ~IsOk(Outcome("verify_mp3_file")))
            => Positions(r.steps, "copy_file") = {} /\ r.written = {}

\* C15 witness: the call returned the probe's error after the marker load
\* and the probe alone, nothing written, for a source the copy of which
\* would have succeeded
C15_Witness ==
    /\ Returned("Sequential")
    /\ run["Sequential"].steps = <<"load_cvs", "verify_mp3_file">>
    /\ IsErr(run["Sequential"].result)
    /\ IsOk(Outcome("copy_file"))
    /\ run["Sequential"].written = {}

MarkerOrAudioErrors == {"CsvError", "ChaptersFileNotCompatible", "AudioFileNotCompatible"}

\* C16: in Parallel mode the copy worker is started with its siblings,
\* whatever they will return; once it has made the copy, the copy stays on
\* disk in every later state, also when apply returns a marker-file or
\* audio-format error, and then no tag was written to it. (That such a
\* final state is reached is C16_Witness.)
C16_CopyNotUndone ==
    LET r == run["Parallel"]
        c == worker["copy_file"]
    IN /\ r.pc # "spawn" => c.st # "idle"
       /\ (c.st = "finished" /\ IsOk(c.out)) => c.out.val \in r.written
       /\ (Returned("Parallel") /\ IsErr(r.result) /\ r.result.val \in MarkerOrAudioErrors)
            => r.tagged = <<>>

\* C16 witness: apply has returned a marker-file or audio-format error, the
\* copy is on disk and no tag was written
C16_Witness ==
    /\ Returned("Parallel")
    /\ IsErr(run["Parallel"].result) /\ run["Parallel"].result.val \in MarkerOrAudioErrors
    /\ IsOk(worker["copy_file"].out)
    /\ worker["copy_file"].out.val \in run["Parallel"].written
    /\ run["Parallel"].tagged = <<>>

\* the pairs of accesses of two different workers to one file
SharedAccesses ==
    {p \in run["Parallel"].access \X run["Parallel"].access :
       /\ p[1].by \in Workers /\ p[2].by \in Workers
       /\ p[1].by # p[2].by
       /\ p[1].file = p[2].file}

\* C17 (as claimed): in Parallel mode no two of the three workers access
\* the same file, for reading or for writing.
C17_NoSharedFile == SharedAccesses = {}

\* C17 (amended): in Parallel mode the only file two workers access is the
\* source audio file, which the audio probe and the file copy both read and
\* none writes; a file a worker writes is accessed by no other worker.
C17_SharedOnlyForReading ==
    \A p \in SharedAccesses :
      /\ p[1].kind = "read" /\ p[2].kind = "read"
      /\ p[1].file = mp3_file
      /\ {p[1].by, p[2].by} = {"verify_mp3_file", "copy_file"}

\* C17 witness: the three workers have finished, the probe and the copy
\* have both read the source, and the copy has written its destination
C17_Witness ==
    /\ \A w \in Workers : worker[w].st = "finished"
    /\ Access("verify_mp3_file", mp3_file, "read") \in run["Parallel"].access
    /\ Access("copy_file", mp3_file, "read") \in run["Parallel"].access
    /\ \E a \in run["Parallel"].access : a.by = "copy_file" /\ a.kind = "write"

\* what a call of apply in Parallel mode ends with, as a function of the
\* outcomes of the three workers alone (and of those of build_tag and
\* write_to_path, which run after them on the calling thread)
ValueOf(cvs, duration, new_mp3_file) ==
    LET joined(out) == IF IsPanic(out) THEN Err("ThreadInterrupted") ELSE out IN
    IF ~IsOk(cvs)
    THEN IF IsPanic(duration) \/ IsPanic(new_mp3_file) THEN Panic ELSE joined(cvs)
    ELSE IF ~IsOk(duration)
    THEN IF IsPanic(new_mp3_file) THEN Panic ELSE joined(duration)
    ELSE IF ~IsOk(build_tag(cvs.val, duration.val)) THEN Panic
    ELSE IF ~IsOk(new_mp3_file) THEN joined(new_mp3_file)
    ELSE IF io.write THEN Ok(new_mp3_file.val)
    ELSE Err("WriteError")

\* C18: in Parallel mode what apply returns (the destination path, or the
\* error kind) is one fixed function of the outcomes of the three workers:
\* it is the same whatever the interleaving and the order in which the
\* workers finish.
C18_InterleavingIndependent ==
    Returned("Parallel")
      => SameResult(run["Parallel"].result,
                    ValueOf(Outcome("load_cvs"), Outcome("verify_mp3_file"), Outcome("copy_file")))

\* the workers in the order they finished in
FinishOrder(steps) ==
    [w \in Workers |-> CHOOSE i \in 1..Len(steps) : steps[i] = w]

\* C18 witness: the copy failed first, the probe failed next, the marker
\* load failed last, and apply returned the marker load's error
C18_Witness ==
    /\ Returned("Parallel")
    /\ \A w \in Workers : IsErr(Outcome(w))
    /\ LET at == FinishOrder(run["Parallel"].steps) IN
       at["copy_file"] < at["verify_mp3_file"] /\ at["verify_mp3_file"] < at["load_cvs"]
    /\ SameResult(run["Parallel"].result, Outcome("load_cvs"))

(***************************************************************************)
(* Properties of the functions (SpecFn).                                   *)
(***************************************************************************)
Called(fn) == args.fn = fn /\ ret.tag # "Pending"

\* C7 (as claimed): for a non-empty marker list of length N with valid
\* time-codes and a duration D of whole milliseconds, build_chapters yields
\* N chapters in marker order, chapter i with id i in decimal, the marker's
\* name as title, the converted start of marker i as start_time, and as
\* end_time the start_time of chapter i+1, or D for the last chapter.
C7_ChapterBoundaries ==
    (Called("build_chapters") /\ IsOk(ret) /\ Len(args.records) >= 1 /\ args.duration % 10 = 0)
      => LET N == Len(args.records)
             D == args.duration \div 10
             ch == ret.val
         IN /\ Len(ch) = N
            /\ \A i \in 1..N :
                 /\ ch[i].element_id = to_string(i - 1)
                 /\ ch[i].title = args.records[i].name
                 /\ ch[i].start_time = convert_time(args.records[i].start).val
                 /\ ch[i].end_time = IF i < N THEN ch[i + 1].start_time ELSE D

DecimalIds == <<<<"0">>, <<"1">>, <<"2">>, <<"3">>, <<"4">>, <<"5">>>>

FramesOf(tag, id) == {k \in 1..Len(tag) : tag[k].id = id}

\* C8: for a marker list of length N >= 1, the tag build_tag returns holds
\* exactly N chapter frames and exactly one table-of-contents frame, whose
\* elements are "0", "1", ..., "N-1": the ids of the chapter frames, in the
\* order of the chapter frames.
C8_TagFrames ==
    (Called("build_tag") /\ IsOk(ret) /\ Len(args.records) >= 1)
      => LET N == Len(args.records)
             tag == ret.val
             chaps == FramesOf(tag, "CHAP")
             tocs == FramesOf(tag, "CTOC")
         IN /\ Cardinality(chaps) = N
            /\ Cardinality(tocs) = 1
            /\ \A t \in tocs :
                 /\ tag[t].elements = SubSeq(DecimalIds, 1, N)
                 /\ \A i \in 1..N : i \in chaps /\ tag[i].element_id = tag[t].elements[i]

\* C8 witness: build_tag has returned the tag of three markers
C8_Witness ==
    /\ Called("build_tag") /\ IsOk(ret)
    /\ Len(args.records) = 3
    /\ Len(ret.val) = 4

IsNonNegInt(s) == s # <<>> /\ \A i \in 1..Len(s) : s[i] \in DigitChars

\* the time-code is not  seg:seg.ms  or  seg:seg:seg.ms  of non-negative integers
Malformed(time) ==
    LET dot == IndexOf(time, ".")
        segs == Split(SubSeq(time, 1, dot - 1), ":")
        ms == SubSeq(time, dot + 1, Len(time))
    IN \/ Len(segs) \notin {2, 3}
       \/ \E i \in 1..Len(segs) : ~IsNonNegInt(segs[i])
       \/ ~IsNonNegInt(ms)

\* C9 (as claimed): on a start text that holds ':' and '.', convert_time
\* returns the typed error TimeFormatInvalid, and does not panic, when a
\* colon-separated segment or the millisecond part is no non-negative
\* integer or the number of segments is not 2 or 3.
C9_TimeFormatInvalid ==
    (Called("convert_time") /\ Contains(args.time, ":") /\ Contains(args.time, ".")
       /\ Malformed(args.time))
      => SameResult(ret, Err("TimeFormatInvalid"))

\* C10: on a marker file that opens, load_cvs returns
\* ChaptersFileNotCompatible when the file has no data row, or a row failed
\* to deserialize, or a row's Start lacks ':' or '.'; otherwise it returns
\* every row, in input order.
C10_LoadCvs ==
    (Called("load_cvs") /\ args.file.openable)
      => LET rows == args.file.rows
             bad == \/ rows = <<>>
                    \/ \E k \in 1..Len(rows) : ~rows[k].ok
                    \/ \E k \in 1..Len(rows) :
                         ~Contains(rows[k].start, ":") \/ ~Contains(rows[k].start, ".")
         IN IF bad THEN SameResult(ret, Err("ChaptersFileNotCompatible"))
            ELSE /\ IsOk(ret)
                 /\ ret.val = [k \in 1..Len(rows) |->
                                 [name |-> rows[k].name, start |-> rows[k].start]]

\* C10 witness: three rows, only the last one bad (no '.'): the file is refused
C10_Witness ==
    /\ Called("load_cvs") /\ args.file.openable
    /\ Len(args.file.rows) = 3
    /\ args.file.rows[1].ok /\ args.file.rows[1].start = T_0_00_000
    /\ args.file.rows[2].ok /\ args.file.rows[2].start = T_1_30_500
    /\ args.file.rows[3].ok /\ args.file.rows[3].start = T_no_dot
    /\ SameResult(ret, Err("ChaptersFileNotCompatible"))

\* what follows the stem in a file name: "." and the extension, or nothing
DotExtension(name) == SubSeq(name, Len(file_stem(name)) + 1, Len(name))

Enriched == <<"_", "e", "n", "r", "i", "c", "h", "e", "d">>

\* C12 (as claimed): for a source path whose file name has a stem, the path
\* copy_file returns is in the directory of the source, and its file name
\* is the stem of the source, then "_enriched", then the extension of the
\* source.
C12_CopyFileDestination ==
    (Called("copy_file") /\ args.path.name # NoFileName /\ IsOk(ret))
      => /\ ret.val.dir = args.path.dir
         /\ ret.val.name = file_stem(args.path.name) \o Enriched \o DotExtension(args.path.name)

\* the value [HH:]MM:SS.mmm stands for, for a time-code of two or three
\* segments of digits and a millisecond part of digits
WellFormed(time) == Contains(time, ":") /\ Contains(time, ".") /\ ~Malformed(time)

\* The value is held as [q, r], value = 8 * q + r with r < 8: the value of
\* 1194:00:00.000 is above 2^32 and q is within TLC's integers.
Milliseconds(time) ==
    LET dot == IndexOf(time, ".")
        segs == Split(SubSeq(time, 1, dot - 1), ":")
        n == Len(segs)
        HH == IF n = 3 THEN DigitsValue(segs[1]) ELSE 0
        MM == DigitsValue(segs[n - 1])
        SS == DigitsValue(segs[n])
        mmm == DigitsValue(SubSeq(time, dot + 1, Len(time)))
    IN [q |-> HH * (3600000 \div 8) + MM * (60000 \div 8) + SS * (1000 \div 8) + mmm \div 8,
        r |-> mmm % 8]

\* C13 (as claimed): for every time-code [HH:]MM:SS.mmm convert_time returns
\* HH*3600000 + MM*60000 + SS*1000 + mmm, two segments being MM:SS and the
\* part after the '.' a count of milliseconds.
C13_ConvertTimeValue ==
    (Called("convert_time") /\ WellFormed(args.time))
      => /\ IsOk(ret)
         /\ ret.val \div 8 = Milliseconds(args.time).q
         /\ ret.val % 8 = Milliseconds(args.time).r

\* f64::round of a count of tenths of a millisecond, in milliseconds
Round(tenths) == (tenths + 5) \div 10

\* C14 (as claimed): when the total duration D has a fractional part, the
\* end_time of the last chapter build_chapters yields is round(D).
C14_LastEndIsRounded ==
    (Called("build_chapters") /\ IsOk(ret) /\ Len(args.records) >= 1 /\ args.duration % 10 # 0)
      => ret.val[Len(ret.val)].end_time = Round(args.duration)

\* the converted start of marker i
StartOf(records, i) == convert_time(records[i].start).val

\* C19 (as claimed): when the converted starts of the markers are
\* non-decreasing in input order and the last start is at most the total
\* duration, the chapters build_chapters yields have non-decreasing
\* start_time and each has start_time <= end_time.
C19_StartNotAfterEnd ==
    (/\ Called("build_chapters") /\ IsOk(ret) /\ Len(args.records) >= 1
     /\ \A i \in 1..(Len(args.records) - 1) :
          StartOf(args.records, i) <= StartOf(args.records, i + 1)
     /\ StartOf(args.records, Len(args.records)) * 10 <= args.duration)
      => /\ \A i \in 1..(Len(ret.val) - 1) : ret.val[i].start_time <= ret.val[i + 1].start_time
         /\ \A i \in 1..Len(ret.val) : ret.val[i].start_time <= ret.val[i].end_time

====
